---- MODULE Spec2Model ----
(***************************************************************************)
(* StorySheet: the PDF generation request handler (POST) with its panel    *)
(* imposition, and the back-page text auto-fit (wrapText,                  *)
(* pickFontSizeToFillPage).                                                *)
(*                                                                         *)
(* A string is a sequence of characters.  A form entry is <<"str", s>>     *)
(* for a string value and <<"null">> for an absent (or non-string) entry.  *)
(***************************************************************************)
EXTENDS Integers, Sequences, FiniteSets, TLC

VARIABLES
    form,       \* the request's form fields: mode, includeBackText, backText
    files,      \* form.getAll("images"): the declared type of each file
    pc,         \* the handler's position
    pdf,        \* "none" before PDFDocument.create(), then "open"
    pages,      \* number of pages added to the document
    i,          \* the image loop's index (0-based)
    embeds,     \* indices of the images embedded so far
    draws,      \* page 1: the drawImage calls, in order
    labels,     \* page 1: the drawPanelLabel calls, in order
    page2,      \* <<the back page's text block>>, or <<>> with no page 2
    response,   \* <<the handler's response>>, or <<>> before it returns
    fitText,    \* pickFontSizeToFillPage called on its own: text
    fitWidth,   \*   maxWidth
    fitHeight,  \*   maxHeight
    fitPc,      \*   "idle" | "call" | "returned"
    fitResult,  \*   the value returned
    placePc,    \* one image placed on its own: "idle" | "call" | "drawn"
    placeIn,    \*   the mode, the image's position and its pixel size
    placeOut    \*   <<the placement>>, or <<>> before it is computed

handlerVars == <<form, files, pc, pdf, pages, i, embeds, draws, labels, page2, response>>
fitVars == <<fitText, fitWidth, fitHeight, fitPc, fitResult>>
placeVars == <<placePc, placeIn, placeOut>>
vars == <<form, files, pc, pdf, pages, i, embeds, draws, labels, page2, response,
          fitText, fitWidth, fitHeight, fitPc, fitResult,
          placePc, placeIn, placeOut>>

(***************************************************************************)
(* Bounds of the model.                                                    *)
(***************************************************************************)
MaxLen == 5        \* longest text handed to pickFontSizeToFillPage on its own
MaxWidth == 18     \* largest maxWidth tried
MaxHeight == 32    \* largest maxHeight tried
MaxFiles == 13     \* most files in one request
MaxBad == 1        \* most files of an unsupported type in one request
MaxDim == 6        \* largest pixel width and height of an image placed on its own

Min(a, b) == IF a <= b THEN a ELSE b

(***************************************************************************)
(* Strings.                                                                *)
(***************************************************************************)
Chars == {" ", "m"}

IsSpace(c) == c = " "

\* Every string of length 0..n
StringsUpTo(n) == UNION {[1..k -> Chars] : k \in 0..n}

RECURSIVE TrimStart(_)
TrimStart(s) ==
    IF s # <<>> /\ IsSpace(Head(s)) THEN TrimStart(Tail(s)) ELSE s

RECURSIVE TrimEnd(_)
TrimEnd(s) ==
    IF s # <<>> /\ IsSpace(s[Len(s)]) THEN TrimEnd(SubSeq(s, 1, Len(s) - 1)) ELSE s

\* String.prototype.trim
Trim(s) == TrimEnd(TrimStart(s))

\* s.split(/\s+/): the pieces between maximal runs of whitespace; a string
\* with no whitespace (the empty one included) is a single piece.
RECURSIVE SplitFrom(_, _, _)
SplitFrom(s, cur, k) ==
    IF k > Len(s) THEN <<cur>>
    ELSE IF IsSpace(s[k])
         THEN IF k > 1 /\ IsSpace(s[k - 1])
              THEN SplitFrom(s, cur, k + 1)
              ELSE <<cur>> \o SplitFrom(s, <<>>, k + 1)
         ELSE SplitFrom(s, Append(cur, s[k]), k + 1)

SplitWhitespace(s) == SplitFrom(s, <<>>, 1)

\* .filter(Boolean) on strings: the empty string is falsy
FilterNonEmpty(ws) == SelectSeq(ws, LAMBDA w : w # <<>>)

(***************************************************************************)
(* Font metrics: font.widthOfTextAtSize(text, size) is the sum of the      *)
(* glyphs' advance widths (thousandths of an em) times size / 1000.        *)
(* Widths are kept in thousandths of a point.                              *)
(***************************************************************************)
GlyphWidth(c) == IF IsSpace(c) THEN 278 ELSE 833

RECURSIVE TextUnits(_)
TextUnits(s) == IF s = <<>> THEN 0 ELSE GlyphWidth(Head(s)) + TextUnits(Tail(s))

WidthOfTextAtSize(s, fontSize) == TextUnits(s) * fontSize

\* width <= maxWidth, maxWidth in points
FitsWidth(s, fontSize, maxWidth) == WidthOfTextAtSize(s, fontSize) <= maxWidth * 1000

(***************************************************************************)
(* wrapText                                                                *)
(***************************************************************************)
RECURSIVE WrapWords(_, _, _, _, _)
WrapWords(words, lines, line, fontSize, maxWidth) ==
    IF words = <<>>
    THEN IF line # <<>> THEN Append(lines, line) ELSE lines
    ELSE LET w == Head(words)
             candidate == IF line # <<>> THEN line \o <<" ">> \o w ELSE w
         IN  IF FitsWidth(candidate, fontSize, maxWidth)
             THEN WrapWords(Tail(words), lines, candidate, fontSize, maxWidth)
             ELSE WrapWords(Tail(words),
                            IF line # <<>> THEN Append(lines, line) ELSE lines,
                            w, fontSize, maxWidth)

WrapText(text, fontSize, maxWidth) ==
    WrapWords(FilterNonEmpty(SplitWhitespace(Trim(text))), <<>>, <<>>, fontSize, maxWidth)

(***************************************************************************)
(* pickFontSizeToFillPage                                                  *)
(***************************************************************************)
FontLo == 8
FontHi == 140
FontDefault == 12

\* Math.round(size * 1.22)
LineHeight(size) == (122 * size + 50) \div 100

\* (text || "").trim() || " "
SafeText(text) == IF Trim(text) # <<>> THEN Trim(text) ELSE <<" ">>

\* the loop's test: the block of wrapped lines is no taller than maxHeight
FitsHeight(safeText, size, maxWidth, maxHeight) ==
    Len(WrapText(safeText, size, maxWidth)) * LineHeight(size) <= maxHeight

\* a slip: the halves of the search swapped, so that it narrows towards the
\* smallest size that fits
RECURSIVE SearchTowardsSmallest(_, _, _, _, _, _)
SearchTowardsSmallest(safeText, maxWidth, maxHeight, lo, hi, best) ==
    IF lo <= hi
    THEN LET mid == (lo + hi) \div 2
         IN  IF Len(WrapText(safeText, mid, maxWidth)) * ((122 * mid + 50) \div 100)
                    <= maxHeight
             THEN SearchTowardsSmallest(safeText, maxWidth, maxHeight, lo, mid - 1, mid)
             ELSE SearchTowardsSmallest(safeText, maxWidth, maxHeight, mid + 1, hi, best)
    ELSE best

RECURSIVE SearchFontSize(_, _, _, _, _, _)
SearchFontSize(safeText, maxWidth, maxHeight, lo, hi, best) ==
    IF lo <= hi
    THEN LET mid == (lo + hi) \div 2
         IN  IF FitsHeight(safeText, mid, maxWidth, maxHeight)
             THEN SearchFontSize(safeText, maxWidth, maxHeight, mid + 1, hi, mid)
             ELSE SearchFontSize(safeText, maxWidth, maxHeight, lo, mid - 1, best)
    ELSE best

PickFontSizeToFillPage(text, maxWidth, maxHeight) ==
    LET safeText == SafeText(text)
        best == SearchFontSize(safeText, maxWidth, maxHeight, FontLo, FontHi, FontDefault)
    IN  [fontSize |-> best,
         lineHeight |-> LineHeight(best),
         lines |-> WrapText(safeText, best, maxWidth)]

NoResult == [fontSize |-> 0, lineHeight |-> 0, lines |-> <<>>]


(***************************************************************************)
(* The request handler, POST.                                              *)
(***************************************************************************)
NullEntry == <<"null">>
StrEntry(s) == <<"str", s>>

\* asString, on a field holding a token
AsString(v) == IF v[1] = "str" THEN v[2] ELSE ""

\* asString, on a field holding text (a sequence of characters)
AsText(v) == IF v[1] = "str" THEN v[2] ELSE <<>>

\* asString(form.get("mode")) || "sheet12"
Mode == IF AsString(form.mode) # "" THEN AsString(form.mode) ELSE "sheet12"

IncludeBackText == AsString(form.includeBackText) = "true"

BackText == AsText(form.backText)

IsZine == Mode = "zine8"

PageW(isZine) == IF isZine THEN 792 ELSE 612
PageH(isZine) == IF isZine THEN 612 ELSE 792

\* a slip: the 12-up grid as 4 columns (and 3 rows)
ColsFourUp(isZine) == 4

Cols(isZine) == IF isZine THEN 4 ELSE 3
Rows(isZine) == IF isZine THEN 2 ELSE 4
MaxImages(isZine) == IF isZine THEN 8 ELSE 12

\* a slip: the clip one short
SelectedOneShort == SubSeq(files, 1, Min(Len(files), MaxImages(IsZine) - 1))

\* files.slice(0, maxImages)
Selected == SubSeq(files, 1, Min(Len(files), MaxImages(IsZine)))

\* a slip: the pages laid out in reading order, with no imposition
ZineSlotInReadingOrder(pageNum) == pageNum - 1

\* Top row (upside down): 8,1,2,3; bottom row: 7,6,5,4
ZineSlotForPage(pageNum) ==
    CASE pageNum = 8 -> 0
      [] pageNum = 1 -> 1
      [] pageNum = 2 -> 2
      [] pageNum = 3 -> 3
      [] pageNum = 7 -> 4
      [] pageNum = 6 -> 5
      [] pageNum = 5 -> 6
      [] pageNum = 4 -> 7

Supported(type) == type = "image/jpeg" \/ type = "image/png"

\* a slip: the slot counted over the images drawn, so that a skipped image's
\* panel is filled by the next one
CellIndexPacked(isZine, idx) ==
    IF isZine THEN ZineSlotForPage(Len(draws) + 1) ELSE Len(draws)

\* the panel slot of the image at position idx (0-based)
CellIndex(isZine, idx) == IF isZine THEN ZineSlotForPage(idx + 1) ELSE idx

\* a slip: the bottom row rotated instead of the top one
BottomRowRotated(isZine, row) == isZine /\ row = 1

TopRowRotated(isZine, row) == isZine /\ row = 0

\* page1.drawImage for the image at position idx
ImageDraw(isZine, idx) ==
    LET cellIndex == CellIndex(isZine, idx)
        col == cellIndex % Cols(isZine)
        row == cellIndex \div Cols(isZine)
    IN  [img |-> idx, cellIndex |-> cellIndex, col |-> col, row |-> row,
         rotate180 |-> TopRowRotated(isZine, row)]

\* a slip: the labels drawn upright whatever the row of their panel
PanelLabelsUpright(isZine, idx) ==
    LET d == ImageDraw(isZine, idx)
        pageNum == idx + 1
        cover == IF isZine /\ pageNum = 1
                 THEN <<[text |-> "Close Friends Only", fontSize |-> 10,
                         cellIndex |-> d.cellIndex, anchor |-> "top",
                         rotate180 |-> FALSE]>>
                 ELSE <<>>
        footer == IF isZine /\ pageNum = 8
                  THEN <<[text |-> "Open the zine to read the letter.", fontSize |-> 7,
                          cellIndex |-> d.cellIndex, anchor |-> "bottom",
                          rotate180 |-> FALSE]>>
                  ELSE <<>>
    IN  cover \o footer

\* the drawPanelLabel calls for the image at position idx
PanelLabels(isZine, idx) ==
    LET d == ImageDraw(isZine, idx)
        pageNum == idx + 1
        cover == IF isZine /\ pageNum = 1
                 THEN <<[text |-> "Close Friends Only", fontSize |-> 10,
                         cellIndex |-> d.cellIndex, anchor |-> "top",
                         rotate180 |-> d.rotate180]>>
                 ELSE <<>>
        footer == IF isZine /\ pageNum = 8
                  THEN <<[text |-> "Open the zine to read the letter.", fontSize |-> 7,
                          cellIndex |-> d.cellIndex, anchor |-> "bottom",
                          rotate180 |-> d.rotate180]>>
                  ELSE <<>>
    IN  cover \o footer

(***************************************************************************)
(* Numbers.  A JavaScript number is an IEEE 754 double: every arithmetic   *)
(* operation gives the exact result rounded to 53 significant bits, to     *)
(* nearest, ties to even.  A double is [neg, m, e], the value              *)
(* (-1)^neg * m * 2^e with m a natural number below 2^53; m is a sequence  *)
(* of limbs in base 2^15, least significant first, <<>> for zero.  The     *)
(* values of the layout stay far from overflow and from subnormals.        *)
(***************************************************************************)
LimbBits == 15
LimbBase == 2 ^ LimbBits

Max(a, b) == IF a >= b THEN a ELSE b

RECURSIVE BigNorm(_)
BigNorm(a) ==
    IF a # <<>> /\ a[Len(a)] = 0 THEN BigNorm(SubSeq(a, 1, Len(a) - 1)) ELSE a

RECURSIVE BigFromInt(_)
BigFromInt(n) ==
    IF n = 0 THEN <<>> ELSE <<n % LimbBase>> \o BigFromInt(n \div LimbBase)

Limb(a, k) == IF k <= Len(a) THEN a[k] ELSE 0

RECURSIVE BigCmpFrom(_, _, _)
BigCmpFrom(a, b, k) ==
    IF k = 0 THEN 0
    ELSE IF a[k] # b[k] THEN (IF a[k] < b[k] THEN -1 ELSE 1)
    ELSE BigCmpFrom(a, b, k - 1)

\* -1, 0, 1 as a < b, a = b, a > b
BigCmp(a, b) ==
    IF Len(a) # Len(b) THEN (IF Len(a) < Len(b) THEN -1 ELSE 1)
    ELSE BigCmpFrom(a, b, Len(a))

RECURSIVE BigAddFrom(_, _, _, _)
BigAddFrom(a, b, k, carry) ==
    IF k > Max(Len(a), Len(b))
    THEN IF carry = 0 THEN <<>> ELSE <<carry>>
    ELSE LET t == Limb(a, k) + Limb(b, k) + carry
         IN  <<t % LimbBase>> \o BigAddFrom(a, b, k + 1, t \div LimbBase)

BigAdd(a, b) == BigAddFrom(a, b, 1, 0)

RECURSIVE BigSubFrom(_, _, _, _)
BigSubFrom(a, b, k, borrow) ==
    IF k > Len(a) THEN <<>>
    ELSE LET t == a[k] - Limb(b, k) - borrow
         IN  IF t < 0
             THEN <<t + LimbBase>> \o BigSubFrom(a, b, k + 1, 1)
             ELSE <<t>> \o BigSubFrom(a, b, k + 1, 0)

\* a - b, for a >= b
BigSub(a, b) == BigNorm(BigSubFrom(a, b, 1, 0))

RECURSIVE BigMulFrom(_, _, _, _)
BigMulFrom(a, n, k, carry) ==
    IF k > Len(a)
    THEN IF carry = 0 THEN <<>> ELSE <<carry>>
    ELSE LET t == a[k] * n + carry
         IN  <<t % LimbBase>> \o BigMulFrom(a, n, k + 1, t \div LimbBase)

\* a * n, for 0 <= n < 2^15
BigMulSmall(a, n) == BigNorm(BigMulFrom(a, n, 1, 0))

RECURSIVE BigDivFrom(_, _, _, _)
BigDivFrom(a, d, k, r) ==
    IF k = 0 THEN [q |-> <<>>, r |-> r]
    ELSE LET cur == r * LimbBase + a[k]
             rest == BigDivFrom(a, d, k - 1, cur % d)
         IN  [q |-> Append(rest.q, cur \div d), r |-> rest.r]

\* quotient and remainder of a by d, for 0 < d <= 2^15
BigDivSmall(a, d) ==
    LET dm == BigDivFrom(a, d, Len(a), 0)
    IN  [q |-> BigNorm(dm.q), r |-> dm.r]

Zeros(n) == [k \in 1..n |-> 0]

\* a * 2^s
BigShiftLeft(a, s) ==
    IF a = <<>> THEN <<>>
    ELSE Zeros(s \div LimbBits) \o BigMulSmall(a, 2 ^ (s % LimbBits))

\* 2^s
BigPow2(s) == BigShiftLeft(<<1>>, s)

\* floor(a / 2^s) and a mod 2^s
BigShiftRight(a, s) ==
    LET t == Min(s \div LimbBits, Len(a))
        dm == BigDivSmall(SubSeq(a, t + 1, Len(a)), 2 ^ (s % LimbBits))
    IN  [q |-> dm.q,
         r |-> BigNorm(SubSeq(a, 1, t) \o <<dm.r>>)]

RECURSIVE BitLenSmall(_)
BitLenSmall(n) == IF n = 0 THEN 0 ELSE 1 + BitLenSmall(n \div 2)

BigBitLen(a) ==
    IF a = <<>> THEN 0 ELSE LimbBits * (Len(a) - 1) + BitLenSmall(a[Len(a)])

BigIsOdd(a) == a # <<>> /\ a[1] % 2 = 1

\* (-1)^neg * m * 2^e (and a little more, when sticky) rounded to a double
RoundToDouble(neg, m, e, sticky) ==
    LET len == BigBitLen(m)
    IN  IF len <= 53 THEN [neg |-> neg, m |-> m, e |-> e]
        ELSE LET s == len - 53
                 sr == BigShiftRight(m, s)
                 c == BigCmp(sr.r, BigPow2(s - 1))
                 up == c > 0 \/ (c = 0 /\ (sticky \/ BigIsOdd(sr.q)))
             IN  [neg |-> neg,
                  m |-> IF up THEN BigAdd(sr.q, <<1>>) ELSE sr.q,
                  e |-> e + s]

\* the double of an integer
DblFromInt(n) == [neg |-> n < 0, m |-> BigFromInt(IF n < 0 THEN -n ELSE n), e |-> 0]

DblNeg(x) == [neg |-> ~x.neg, m |-> x.m, e |-> x.e]

\* x * 2^k, exactly
Scaled(x, k) == [neg |-> x.neg, m |-> x.m, e |-> x.e + k]

\* x + y, exactly
ExactAdd(x, y) ==
    LET e == Min(x.e, y.e)
        mx == BigShiftLeft(x.m, x.e - e)
        my == BigShiftLeft(y.m, y.e - e)
    IN  IF x.neg = y.neg THEN [neg |-> x.neg, m |-> BigAdd(mx, my), e |-> e]
        ELSE IF BigCmp(mx, my) >= 0 THEN [neg |-> x.neg, m |-> BigSub(mx, my), e |-> e]
        ELSE [neg |-> y.neg, m |-> BigSub(my, mx), e |-> e]

ExactSub(x, y) == ExactAdd(x, DblNeg(y))

\* n * x, exactly, for an integer n with |n| < 2^15
ExactMulInt(n, x) ==
    [neg |-> (x.neg # (n < 0)), m |-> BigMulSmall(x.m, IF n < 0 THEN -n ELSE n), e |-> x.e]

\* |x|
Abs(x) == [neg |-> FALSE, m |-> x.m, e |-> x.e]

\* -1, 0, 1 as x < 0, x = 0, x > 0
Sign(x) == IF x.m = <<>> THEN 0 ELSE IF x.neg THEN -1 ELSE 1

\* x = y, x <= y, x < y as numbers
NumEq(x, y) == Sign(ExactSub(x, y)) = 0
NumLeq(x, y) == Sign(ExactSub(x, y)) <= 0
NumLess(x, y) == Sign(ExactSub(x, y)) < 0

\* x + y and x - y
DblAdd(x, y) == LET z == ExactAdd(x, y) IN RoundToDouble(z.neg, z.m, z.e, FALSE)
DblSub(x, y) == DblAdd(x, DblNeg(y))

\* n * x, n an integer with |n| < 2^15
DblMulInt(n, x) == LET z == ExactMulInt(n, x) IN RoundToDouble(z.neg, z.m, z.e, FALSE)

\* x / d, d an integer with 0 < d < 2^15: the quotient is taken to 60 bits
\* or more, the remainder is the sticky bit
DblDivInt(x, d) ==
    LET dm == BigDivSmall(Zeros(5) \o x.m, d)
    IN  IF x.m = <<>> THEN x
        ELSE RoundToDouble(x.neg, dm.q, x.e - 5 * LimbBits, dm.r # 0)

\* a slip: Math.max, which fills the cell and crops
DblMax(x, y) == IF NumLeq(x, y) THEN y ELSE x

\* Math.min
DblMin(x, y) == IF NumLeq(x, y) THEN x ELSE y

(***************************************************************************)
(* The panel grid and the placement of one image in its panel.             *)
(***************************************************************************)
MarginTop == 28
MarginOther == 28
Gutter == 10

CellW(isZine) ==
    DblDivInt(DblFromInt(PageW(isZine) - MarginOther * 2 - Gutter * (Cols(isZine) - 1)),
              Cols(isZine))

CellH(isZine) ==
    DblDivInt(DblFromInt(PageH(isZine) - MarginTop - MarginOther
                         - Gutter * (Rows(isZine) - 1)),
              Rows(isZine))

\* the lower left corner of the panel at (col, row)
PanelX(isZine, col) ==
    DblAdd(DblFromInt(MarginOther),
           DblMulInt(col, DblAdd(CellW(isZine), DblFromInt(Gutter))))

PanelY(isZine, row) ==
    LET yTop == DblSub(DblFromInt(PageH(isZine) - MarginTop),
                       DblMulInt(row, DblAdd(CellH(isZine), DblFromInt(Gutter))))
    IN  DblSub(yTop, CellH(isZine))

\* Math.min(cellW / dims.width, cellH / dims.height)
FitScale(cellW, cellH, width, height) ==
    DblMin(DblDivInt(cellW, width), DblDivInt(cellH, height))

\* a slip: the rotated image drawn from its lower left corner, as the
\* unrotated one is
AnchorAtOrigin(origin, size, rotate180) == origin

\* the x (or y) handed to drawImage: the opposite corner when rotated
Anchor(origin, size, rotate180) ==
    IF rotate180 THEN DblAdd(origin, size) ELSE origin

\* the image at position idx, of width x height pixels: its panel, its
\* drawn size and offset, and the options handed to page1.drawImage
Placement(isZine, idx, width, height) ==
    LET d == ImageDraw(isZine, idx)
        cellW == CellW(isZine)
        cellH == CellH(isZine)
        panelX == PanelX(isZine, d.col)
        panelY == PanelY(isZine, d.row)
        scale == FitScale(cellW, cellH, width, height)
        drawW == DblMulInt(width, scale)
        drawH == DblMulInt(height, scale)
        dx == DblAdd(panelX, DblDivInt(DblSub(cellW, drawW), 2))
        dy == DblAdd(panelY, DblDivInt(DblSub(cellH, drawH), 2))
    IN  [img |-> idx, col |-> d.col, row |-> d.row,
         cellW |-> cellW, cellH |-> cellH, panelX |-> panelX, panelY |-> panelY,
         drawW |-> drawW, drawH |-> drawH, dx |-> dx, dy |-> dy,
         x |-> Anchor(dx, drawW, d.rotate180),
         y |-> Anchor(dy, drawH, d.rotate180),
         width |-> drawW, height |-> drawH, rotate180 |-> d.rotate180]

BackMargin == 32

\* err?.message ?? "Unknown error"
ErrorMessage(err) == IF err.hasMessage THEN err.message ELSE "Unknown error"

Thrown(msg) == [hasMessage |-> TRUE, message |-> msg]

JsonResponse(status, message) ==
    <<[status |-> status, contentType |-> "application/json",
       error |-> message, body |-> <<>>]>>

\* pdf.save() and the 200 response: the bytes are the document as built
PdfResponse ==
    <<[status |-> 200, contentType |-> "application/pdf", error |-> "",
       body |-> <<[pages |-> pages, draws |-> draws, labels |-> labels,
                   page2 |-> page2]>>]>>

\* a slip: the failure swallowed, and what was built so far sent
CatchSendsDocument(err) == PdfResponse

\* the catch block
Catch(err) == JsonResponse(500, ErrorMessage(err))

\* if (!files.length) return 400
Reject ==
    /\ pc = "start"
    /\ Len(files) = 0
    /\ response' = JsonResponse(400, "No images uploaded.")
    /\ pc' = "done"
    /\ UNCHANGED <<form, files, pdf, pages, i, embeds, draws, labels, page2>>
    /\ UNCHANGED fitVars
    /\ UNCHANGED placeVars

\* PDFDocument.create(), page 1, the grid, the fonts
Begin ==
    /\ pc = "start"
    /\ Len(files) # 0
    /\ pdf' = "open"
    /\ pages' = 1
    /\ i' = 0
    /\ pc' = "loop"
    /\ UNCHANGED <<form, files, embeds, draws, labels, page2, response>>
    /\ UNCHANGED fitVars
    /\ UNCHANGED placeVars

\* an image of an unsupported type: continue
SkipImage ==
    /\ pc = "loop"
    /\ i < Len(Selected)
    /\ ~Supported(Selected[i + 1])
    /\ i' = i + 1
    /\ UNCHANGED <<form, files, pc, pdf, pages, embeds, draws, labels, page2, response>>
    /\ UNCHANGED fitVars
    /\ UNCHANGED placeVars

\* one iteration of the loop: embed, draw, label
PlaceImage ==
    /\ pc = "loop"
    /\ i < Len(Selected)
    /\ Supported(Selected[i + 1])
    /\ embeds' = embeds \cup {i}
    /\ draws' = Append(draws, ImageDraw(IsZine, i))
    /\ labels' = labels \o PanelLabels(IsZine, i)
    /\ i' = i + 1
    /\ UNCHANGED <<form, files, pc, pdf, pages, page2, response>>
    /\ UNCHANGED fitVars
    /\ UNCHANGED placeVars

\* embedPng / embedJpg throws on the image's bytes
EmbedFails ==
    /\ pc = "loop"
    /\ i < Len(Selected)
    /\ Supported(Selected[i + 1])
    /\ response' = Catch(Thrown(IF Selected[i + 1] = "image/png"
                                THEN "embedPng failed" ELSE "embedJpg failed"))
    /\ pc' = "done"
    /\ UNCHANGED <<form, files, pdf, pages, i, embeds, draws, labels, page2>>
    /\ UNCHANGED fitVars
    /\ UNCHANGED placeVars

\* the optional page 2
BackTextPage ==
    /\ pc = "loop"
    /\ i = Len(Selected)
    /\ IsZine /\ IncludeBackText
    /\ pages' = pages + 1
    /\ page2' = <<PickFontSizeToFillPage(BackText,
                                         PageW(IsZine) - BackMargin * 2,
                                         PageH(IsZine) - BackMargin * 2)>>
    /\ pc' = "save"
    /\ UNCHANGED <<form, files, pdf, i, embeds, draws, labels, response>>
    /\ UNCHANGED fitVars
    /\ UNCHANGED placeVars

NoBackTextPage ==
    /\ pc = "loop"
    /\ i = Len(Selected)
    /\ ~(IsZine /\ IncludeBackText)
    /\ pc' = "save"
    /\ UNCHANGED <<form, files, pdf, pages, i, embeds, draws, labels, page2, response>>
    /\ UNCHANGED fitVars
    /\ UNCHANGED placeVars

Save ==
    /\ pc = "save"
    /\ response' = PdfResponse
    /\ pc' = "done"
    /\ UNCHANGED <<form, files, pdf, pages, i, embeds, draws, labels, page2>>
    /\ UNCHANGED fitVars
    /\ UNCHANGED placeVars

\* pdf.save() throws
SaveFails ==
    /\ pc = "save"
    /\ response' = Catch(Thrown("save failed"))
    /\ pc' = "done"
    /\ UNCHANGED <<form, files, pdf, pages, i, embeds, draws, labels, page2>>
    /\ UNCHANGED fitVars
    /\ UNCHANGED placeVars

(***************************************************************************)
(* The requests tried.                                                     *)
(***************************************************************************)
ModeEntries == {NullEntry, StrEntry("sheet12"), StrEntry("zine8"), StrEntry("poster")}
FlagEntries == {StrEntry("true"), StrEntry("false")}
BackTexts == {<<>>, <<" ">>, <<"m">>, <<"m", " ", "m">>}
SupportedTypes == {"image/jpeg", "image/png"}
UnsupportedType == "image/gif"

\* n files of one supported type, but for those at the positions in bad
FileList(n, type, bad) == [k \in 1..n |-> IF k \in bad THEN UnsupportedType ELSE type]

FileLists ==
    {FileList(n, type, bad) :
        n \in 0..MaxFiles, type \in SupportedTypes,
        bad \in {b \in SUBSET (1..MaxFiles) : Cardinality(b) <= MaxBad}}

FitIdle ==
    /\ fitText = <<>>
    /\ fitWidth = 0
    /\ fitHeight = 0
    /\ fitPc = "idle"
    /\ fitResult = NoResult

PlaceIdle ==
    /\ placePc = "idle"
    /\ placeIn = [isZine |-> FALSE, idx |-> 0, width |-> 1, height |-> 1]
    /\ placeOut = <<>>

Init ==
    /\ form \in [mode : ModeEntries, includeBackText : FlagEntries,
                 backText : {StrEntry(t) : t \in BackTexts}]
    /\ files \in FileLists
    /\ pc = "start"
    /\ pdf = "none"
    /\ pages = 0
    /\ i = 0
    /\ embeds = {}
    /\ draws = <<>>
    /\ labels = <<>>
    /\ page2 = <<>>
    /\ response = <<>>
    /\ FitIdle
    /\ PlaceIdle

Next ==
    \/ Reject
    \/ Begin
    \/ SkipImage
    \/ PlaceImage
    \/ EmbedFails
    \/ BackTextPage
    \/ NoBackTextPage
    \/ Save
    \/ SaveFails

Spec == Init /\ [][Next]_vars

(***************************************************************************)
(* pickFontSizeToFillPage on its own, over every text, width and height    *)
(* within the bounds.                                                      *)
(***************************************************************************)
HandlerIdle ==
    /\ form = [mode |-> NullEntry, includeBackText |-> StrEntry("false"),
               backText |-> StrEntry(<<>>)]
    /\ files = <<>>
    /\ pc = "idle"
    /\ pdf = "none"
    /\ pages = 0
    /\ i = 0
    /\ embeds = {}
    /\ draws = <<>>
    /\ labels = <<>>
    /\ page2 = <<>>
    /\ response = <<>>

FitInit ==
    /\ HandlerIdle
    /\ PlaceIdle
    /\ fitText \in StringsUpTo(MaxLen)
    /\ fitWidth \in 1..MaxWidth
    /\ fitHeight \in 1..MaxHeight
    /\ fitPc = "call"
    /\ fitResult = NoResult

Fit ==
    /\ fitPc = "call"
    /\ fitResult' = PickFontSizeToFillPage(fitText, fitWidth, fitHeight)
    /\ fitPc' = "returned"
    /\ UNCHANGED <<fitText, fitWidth, fitHeight>>
    /\ UNCHANGED handlerVars
    /\ UNCHANGED placeVars

FitNext == Fit

FitSpec == FitInit /\ [][FitNext]_vars

(***************************************************************************)
(* One iteration of the image loop on its own, over both modes, every      *)
(* position and every pixel size within the bounds.                        *)
(***************************************************************************)
PlaceInit ==
    /\ HandlerIdle
    /\ FitIdle
    /\ placeIn \in {in \in [isZine : BOOLEAN, idx : 0..11,
                             width : 1..MaxDim, height : 1..MaxDim] :
                        in.idx < MaxImages(in.isZine)}
    /\ placePc = "call"
    /\ placeOut = <<>>

Place ==
    /\ placePc = "call"
    /\ placeOut' = <<Placement(placeIn.isZine, placeIn.idx, placeIn.width, placeIn.height)>>
    /\ placePc' = "drawn"
    /\ UNCHANGED placeIn
    /\ UNCHANGED handlerVars
    /\ UNCHANGED fitVars

PlaceNext == Place

PlaceSpec == PlaceInit /\ [][PlaceNext]_vars


(***************************************************************************)
(* Properties of the request handler (checked under Spec).                 *)
(***************************************************************************)
Responded == response # <<>>
Succeeded == Responded /\ response[1].status = 200
LoopDone == pc = "save" \/ Succeeded

\* the positions (0-based) of the images the loop goes over, as the claims
\* state them: the first 12 (SingleSheet) or 8 (MiniZine) of the files
ClippedPositions == {idx \in 0..(Len(files) - 1) : idx < (IF IsZine THEN 8 ELSE 12)}
SupportedPositions ==
    {idx \in ClippedPositions : files[idx + 1] \in {"image/jpeg", "image/png"}}

DrawsOf(idx) == {k \in 1..Len(draws) : draws[k].img = idx}
DrawsAt(slot) == {k \in 1..Len(draws) : draws[k].cellIndex = slot}

\* the imposition table of the specification, logical page 1..8 -> slot
ZineTable == <<1, 2, 3, 7, 6, 5, 4, 0>>

\* C1: in MiniZine mode every image drawn is in the slot the table
\* 1->1, 2->2, 3->3, 4->7, 5->6, 6->5, 7->4, 8->0 gives its logical page, no
\* two images share a slot, eight images fill the slots 0..7, and an image
\* is rotated 180 degrees exactly when its slot is in the top row (0..3).
C1_ZinePermutation ==
    IsZine =>
        /\ \A k \in 1..Len(draws) :
              /\ draws[k].img + 1 \in 1..8
              /\ draws[k].cellIndex = ZineTable[draws[k].img + 1]
              /\ draws[k].rotate180 <=> draws[k].cellIndex \in 0..3
              /\ draws[k].row = (IF draws[k].cellIndex \in 0..3 THEN 0 ELSE 1)
        /\ \A j, k \in 1..Len(draws) :
              j # k => draws[j].cellIndex # draws[k].cellIndex
        /\ Len(draws) = 8 => {draws[k].cellIndex : k \in 1..8} = 0..7

C1_Witness ==
    /\ IsZine
    /\ Succeeded
    /\ Len(draws) = 8
    /\ \E j, k \in 1..8 : draws[j].rotate180 /\ ~draws[k].rotate180

\* C2: in SingleSheet mode the image at position i < 12 is drawn in column
\* i mod 3, row floor(i / 3) of a 3 x 4 grid, never rotated; images at
\* positions >= 12 are neither embedded nor drawn and raise no error; the
\* document returned has exactly 1 page.
C2_SingleSheetGrid ==
    ~IsZine =>
        /\ \A k \in 1..Len(draws) :
              /\ draws[k].img \in 0..11
              /\ draws[k].cellIndex = draws[k].img
              /\ draws[k].col = draws[k].img % 3
              /\ draws[k].row = draws[k].img \div 3
              /\ draws[k].col \in 0..2 /\ draws[k].row \in 0..3
              /\ ~draws[k].rotate180
        /\ embeds \subseteq 0..11
        /\ i <= 12
        /\ LoopDone => \A idx \in SupportedPositions : Cardinality(DrawsOf(idx)) = 1
        /\ Succeeded => response[1].body[1].pages = 1
        /\ (Responded /\ response[1].status = 400) => Len(files) = 0

C2_Witness ==
    /\ ~IsZine
    /\ Len(files) > 12
    /\ IncludeBackText
    /\ Succeeded
    /\ Len(draws) = 12
    /\ \E k \in 1..12 : draws[k].img = 11 /\ draws[k].col = 2 /\ draws[k].row = 3

\* C3, as claimed: the number of images placed is
\* min(images supplied, 12 or 8).
C3_PlacedIsMinOfSupplied ==
    Succeeded =>
        Len(response[1].body[1].draws) = Min(Len(files), IF IsZine THEN 8 ELSE 12)

\* C3, amended: the number of images placed is the number of images of a
\* supported format among the first min(images supplied, 12 or 8).
C3_PlacedIsSupportedInClip ==
    Succeeded =>
        /\ Len(response[1].body[1].draws) = Cardinality(SupportedPositions)
        /\ Len(response[1].body[1].draws) <= Min(Len(files), IF IsZine THEN 8 ELSE 12)
        /\ SupportedPositions = ClippedPositions =>
              Len(response[1].body[1].draws) = Min(Len(files), IF IsZine THEN 8 ELSE 12)

C3_Witness ==
    /\ Succeeded
    /\ Len(files) > (IF IsZine THEN 8 ELSE 12)
    /\ SupportedPositions # ClippedPositions
    /\ Len(draws) = (IF IsZine THEN 7 ELSE 11)

\* Scenario C: MiniZine, 8 images of a supported format, no back text
ScenarioC ==
    /\ IsZine
    /\ Len(files) = 8
    /\ SupportedPositions = 0..7
    /\ ~IncludeBackText
    /\ Succeeded

\* C4, as claimed: in scenario C the document has 1 page, image 0 is in slot
\* 1 and not rotated, image 7 is in slot 0 and rotated.
C4_ScenarioCAsClaimed ==
    ScenarioC =>
        /\ response[1].body[1].pages = 1
        /\ \E k \in 1..Len(draws) :
              draws[k].img = 0 /\ draws[k].cellIndex = 1 /\ ~draws[k].rotate180
        /\ \E k \in 1..Len(draws) :
              draws[k].img = 7 /\ draws[k].cellIndex = 0 /\ draws[k].rotate180

\* C4, amended: in scenario C the document has 1 page, image 0 is in slot 1
\* (top row) and rotated, image 7 is in slot 0 and rotated.
C4_ScenarioC ==
    ScenarioC =>
        /\ response[1].body[1].pages = 1
        /\ \A k \in DrawsOf(0) : draws[k].cellIndex = 1 /\ draws[k].rotate180
        /\ \A k \in DrawsOf(7) : draws[k].cellIndex = 0 /\ draws[k].rotate180
        /\ Cardinality(DrawsOf(0)) = 1
        /\ Cardinality(DrawsOf(7)) = 1

C4_Witness == ScenarioC /\ Len(draws) = 8 /\ page2 = <<>>

\* the panel of the image at position idx, as the specification gives it
ExpectedSlot(idx) == IF IsZine THEN ZineTable[idx + 1] ELSE idx

\* C5: an image of an unsupported format is skipped without an error: its
\* panel stays blank, every other clipped image is drawn once, in the panel
\* of its own position, and the only failures are a request with no images
\* and an embed or save that throws.
C5_SkipUnsupported ==
    /\ LoopDone =>
          \A idx \in ClippedPositions :
              IF idx \in SupportedPositions
              THEN /\ Cardinality(DrawsOf(idx)) = 1
                   /\ DrawsAt(ExpectedSlot(idx)) = DrawsOf(idx)
              ELSE /\ DrawsOf(idx) = {}
                   /\ DrawsAt(ExpectedSlot(idx)) = {}
    /\ \A idx \in ClippedPositions \ SupportedPositions : idx \notin embeds
    /\ (Responded /\ ~Succeeded) =>
          \/ response[1].status = 400 /\ Len(files) = 0
          \/ /\ response[1].status = 500
             /\ response[1].error \in {"embedPng failed", "embedJpg failed"}
             /\ i \in SupportedPositions
          \/ /\ response[1].status = 500
             /\ response[1].error = "save failed"

\* Scenario E: MiniZine, 8 images, one of them (not the last) unsupported
C5_Witness ==
    /\ IsZine
    /\ Len(files) = 8
    /\ Succeeded
    /\ Cardinality(SupportedPositions) = 7
    /\ 7 \in SupportedPositions
    /\ Len(response[1].body[1].draws) = 7

\* a complete document: every clipped image of a supported format drawn,
\* and the pages the request asks for
CompleteDocument(doc) ==
    /\ {doc.draws[k].img : k \in 1..Len(doc.draws)} = SupportedPositions
    /\ Len(doc.draws) = Cardinality(SupportedPositions)
    /\ doc.pages = (IF IsZine /\ IncludeBackText THEN 2 ELSE 1)
    /\ doc.page2 # <<>> <=> (IsZine /\ IncludeBackText)

\* C6: a response is a complete document (200) or an error payload with a
\* message and no document bytes; a request with no images gets 400 with no
\* document or page ever created; a failed embed or save gets 500 with the
\* failure's message.
C6_CompleteOrError ==
    /\ Responded =>
          /\ pc = "done"
          /\ \/ /\ response[1].status = 200
                /\ response[1].body # <<>>
                /\ CompleteDocument(response[1].body[1])
             \/ /\ response[1].status \in {400, 500}
                /\ response[1].body = <<>>
                /\ response[1].contentType = "application/json"
                /\ response[1].error # ""
          /\ response[1].status = 400 <=> Len(files) = 0
          /\ response[1].status = 500 =>
                response[1].error \in {"embedPng failed", "embedJpg failed", "save failed"}
          /\ response[1].status = 500 /\ pc = "done" /\ response[1].error # "save failed" =>
                response[1].error = (IF files[i + 1] = "image/png"
                                     THEN "embedPng failed" ELSE "embedJpg failed")
    /\ Len(files) = 0 => pdf = "none" /\ pages = 0 /\ draws = <<>> /\ pc \in {"start", "done"}

\* an embed fails after images have been drawn
C6_Witness ==
    /\ Responded
    /\ response[1].status = 500
    /\ response[1].error = "embedPng failed"
    /\ Len(draws) > 0
    /\ pdf = "open"

\* C7, as claimed: a request whose mode is outside {"sheet12", "zine8"}
\* gets an error and no document.
C7_UnknownModeRejected ==
    (Responded /\ AsString(form.mode) \notin {"sheet12", "zine8"} /\ form.mode # NullEntry) =>
        response[1].status # 200 /\ response[1].body = <<>>


\* C9, as claimed: with empty or whitespace-only back text the MiniZine
\* document with a back page has 2 pages, and page 2 holds exactly one
\* (blank) line, never zero lines.
C9_BlankBackTextOneLine ==
    (Succeeded /\ IsZine /\ IncludeBackText /\ Trim(BackText) = <<>>) =>
        /\ response[1].body[1].pages = 2
        /\ response[1].body[1].page2 # <<>>
        /\ Len(response[1].body[1].page2[1].lines) = 1

(***************************************************************************)
(* Properties of pickFontSizeToFillPage (checked under FitSpec).           *)
(***************************************************************************)
Returned == fitPc = "returned"

\* C8, as claimed: the block of lines returned is no taller than maxHeight
\* and no line returned is wider, at the font size returned, than maxWidth.
C8_AutoFitSafety ==
    Returned =>
        /\ Len(fitResult.lines) * fitResult.lineHeight <= fitHeight
        /\ \A k \in 1..Len(fitResult.lines) :
              TextUnits(fitResult.lines[k]) * fitResult.fontSize <= fitWidth * 1000

\* C10, as claimed: for the same text and width, a larger maxHeight never
\* gives a smaller font size.
C10_MonotoneInHeight ==
    Returned =>
        \A h2 \in (fitHeight + 1)..(MaxHeight + 1) :
            PickFontSizeToFillPage(fitText, fitWidth, h2).fontSize >= fitResult.fontSize


(***************************************************************************)
(* Properties of the placement of one image (checked under PlaceSpec).     *)
(***************************************************************************)
Drawn == placePc = "drawn"

\* |a - b| <= 2^-50 * |b|: equal up to the rounding of a few operations
Close(a, b) == NumLeq(Scaled(Abs(ExactSub(a, b)), 50), Abs(b))

\* a <= b * (1 + 2^-50)
LeqClose(a, b) == NumLeq(Scaled(ExactSub(a, b), 50), Abs(b))

\* C11, as claimed: drawW * h = drawH * w, drawW <= cellW, drawH <= cellH,
\* and drawW = cellW or drawH = cellH, all exactly (the two products taken
\* as the program would compute them, so that an equation that fails here
\* fails in exact arithmetic too).
C11_AspectFitExact ==
    Drawn =>
        LET p == placeOut[1]
        IN  /\ NumEq(DblMulInt(placeIn.height, p.drawW),
                     DblMulInt(placeIn.width, p.drawH))
            /\ NumLeq(p.drawW, p.cellW)
            /\ NumLeq(p.drawH, p.cellH)
            /\ NumEq(p.drawW, p.cellW) \/ NumEq(p.drawH, p.cellH)

\* C11, amended: the same law up to floating-point rounding, a relative
\* error of at most 2^-50: drawW * h and drawH * w agree, drawW and drawH
\* do not exceed cellW and cellH, and drawW agrees with cellW or drawH with
\* cellH.
C11_AspectFit ==
    Drawn =>
        LET p == placeOut[1]
        IN  /\ Close(ExactMulInt(placeIn.height, p.drawW),
                     ExactMulInt(placeIn.width, p.drawH))
            /\ LeqClose(p.drawW, p.cellW)
            /\ LeqClose(p.drawH, p.cellH)
            /\ Close(p.drawW, p.cellW) \/ Close(p.drawH, p.cellH)
            /\ Sign(p.drawW) = 1 /\ Sign(p.drawH) = 1

\* an image whose drawn width comes out one rounding above its cell's
C11_Witness ==
    /\ Drawn
    /\ NumLess(placeOut[1].cellW, placeOut[1].drawW)
    /\ NumLess(placeOut[1].drawH, placeOut[1].cellH)


\* The rectangle an image drawn with the options (x, y, width, height,
\* rotate) covers: from (x, y) up and to the right, or, turned by 180
\* degrees about (x, y), down and to the left.  Exact, not rounded.
Left(p) == IF p.rotate180 THEN ExactSub(p.x, p.width) ELSE p.x
Right(p) == IF p.rotate180 THEN p.x ELSE ExactAdd(p.x, p.width)
Bottom(p) == IF p.rotate180 THEN ExactSub(p.y, p.height) ELSE p.y
Top(p) == IF p.rotate180 THEN p.y ELSE ExactAdd(p.y, p.height)

\* the same edges as the program's arithmetic would give them
LeftDbl(p) == IF p.rotate180 THEN DblSub(p.x, p.width) ELSE p.x
BottomDbl(p) == IF p.rotate180 THEN DblSub(p.y, p.height) ELSE p.y

\* |a - b| <= 2^-30 (of a point)
Within(a, b) == NumLeq(Scaled(Abs(ExactSub(a, b)), 30), DblFromInt(1))

\* a / 2, exactly
Half(a) == Scaled(a, -1)

\* C12, as claimed: the rectangle covered is [dx, dx+drawW] x [dy, dy+drawH]
\* exactly, rotated or not, and its center is the cell's center on both
\* axes (the sums and differences taken as the program would compute them,
\* so that an equation that fails here fails in exact arithmetic too).
C12_CenteredInPlaceExact ==
    Drawn =>
        LET p == placeOut[1]
        IN  /\ NumEq(LeftDbl(p), p.dx)
            /\ NumEq(BottomDbl(p), p.dy)
            /\ NumEq(DblAdd(p.dx, Half(p.drawW)), DblAdd(p.panelX, Half(p.cellW)))
            /\ NumEq(DblAdd(p.dy, Half(p.drawH)), DblAdd(p.panelY, Half(p.cellH)))

\* C12, amended: up to floating-point rounding (2^-30 point) the rectangle
\* covered is [dx, dx+drawW] x [dy, dy+drawH], rotated or not, and its
\* center is the cell's center on both axes; the image is rotated exactly
\* in the top row of the MiniZine, about the corner (dx+drawW, dy+drawH).
C12_CenteredInPlace ==
    Drawn =>
        LET p == placeOut[1]
        IN  /\ Within(Left(p), p.dx)
            /\ Within(Right(p), ExactAdd(p.dx, p.drawW))
            /\ Within(Bottom(p), p.dy)
            /\ Within(Top(p), ExactAdd(p.dy, p.drawH))
            /\ Within(Half(ExactAdd(Left(p), Right(p))),
                      ExactAdd(p.panelX, Half(p.cellW)))
            /\ Within(Half(ExactAdd(Bottom(p), Top(p))),
                      ExactAdd(p.panelY, Half(p.cellH)))
            /\ p.rotate180 <=> (placeIn.isZine /\ p.row = 0)
            /\ p.rotate180 =>
                  /\ Within(p.x, ExactAdd(p.dx, p.drawW))
                  /\ Within(p.y, ExactAdd(p.dy, p.drawH))

\* a rotated image whose left edge comes out one rounding off dx
C12_Witness ==
    /\ Drawn
    /\ placeOut[1].rotate180
    /\ ~NumEq(Left(placeOut[1]), placeOut[1].dx)
    /\ ~NumEq(placeOut[1].drawW, placeOut[1].cellW)


(***************************************************************************)
(* More properties of pickFontSizeToFillPage (checked under FitSpec).      *)
(***************************************************************************)
\* the sizes of the search range at which the wrapped text is no taller
\* than maxHeight
FittingSizes(text, maxWidth, maxHeight) ==
    LET words == FilterNonEmpty(SplitWhitespace(Trim(SafeText(text))))
    IN  {size \in 8..140 :
            Len(WrapWords(words, <<>>, <<>>, size, maxWidth)) * LineHeight(size)
                <= maxHeight}

\* C13: when some size of 8..140 fits, the search returns the largest size
\* that fits, and the sizes that fit are exactly those from 8 up to it.
C13_LargestFittingSize ==
    Returned =>
        LET fitting == FittingSizes(fitText, fitWidth, fitHeight)
        IN  fitting # {} =>
                /\ fitResult.fontSize \in fitting
                /\ \A size \in fitting : size <= fitResult.fontSize
                /\ fitting = 8..fitResult.fontSize
                /\ fitResult.lineHeight = LineHeight(fitResult.fontSize)
                /\ fitResult.lines = WrapText(SafeText(fitText), fitResult.fontSize, fitWidth)

\* a text wrapped to two lines or more at a size inside the range
C13_Witness ==
    /\ Returned
    /\ fitResult.fontSize \in 9..139
    /\ Len(fitResult.lines) >= 2
    /\ Len(fitResult.lines) * fitResult.lineHeight <= fitHeight

(***************************************************************************)
(* C14: the captions of the zine.                                          *)
(***************************************************************************)
\* the caption of logical page p: its text and its anchor
CaptionOf(p) ==
    IF p = 1 THEN [text |-> "Close Friends Only", anchor |-> "top"]
    ELSE [text |-> "Open the zine to read the letter.", anchor |-> "bottom"]

IsCaptionOf(label, p) ==
    label.text = CaptionOf(p).text /\ label.anchor = CaptionOf(p).anchor

LabelsOf(p) == {k \in 1..Len(labels) : IsCaptionOf(labels[k], p)}

\* C14: in MiniZine mode every label drawn is the caption of page 1 or of
\* page 8, its image is supplied at position p-1 with a supported format and
\* is drawn, the label is on that image's panel and is rotated exactly when
\* the image is; once the loop is over, each supported image at position 0 or
\* 7 has exactly one caption; in SingleSheet mode no label is ever drawn.
C14_Captions ==
    /\ ~IsZine => labels = <<>>
    /\ IsZine =>
          /\ \A k \in 1..Len(labels) :
                \E p \in {1, 8} :
                    /\ IsCaptionOf(labels[k], p)
                    /\ (p - 1) \in SupportedPositions
                    /\ \E d \in DrawsOf(p - 1) :
                          /\ draws[d].cellIndex = labels[k].cellIndex
                          /\ draws[d].rotate180 = labels[k].rotate180
          /\ LoopDone =>
                \A p \in {1, 8} :
                    /\ (p - 1) \in SupportedPositions => Cardinality(LabelsOf(p)) = 1
                    /\ (p - 1) \notin SupportedPositions => LabelsOf(p) = {}

C14_Witness ==
    /\ Succeeded
    /\ IsZine
    /\ Len(files) = 8
    /\ 0 \in SupportedPositions
    /\ 7 \notin SupportedPositions
    /\ Cardinality(LabelsOf(1)) = 1
    /\ LabelsOf(8) = {}
    /\ \A k \in LabelsOf(1) : labels[k].rotate180 /\ labels[k].cellIndex = 1

====
